---- MODULE Spec2Model ----
(***************************************************************************)
(* GSE Market Watch (src/src/App.jsx): the range selector                  *)
(* (getFilteredHistory), the metrics engine (getMetrics), the CSV export   *)
(* (downloadCSV) and the React component state that drives them.           *)
(*                                                                         *)
(* JavaScript values are tagged records, so that null, undefined, NaN and  *)
(* numbers stay distinct.  Numbers are exact: a rational n/d, the          *)
(* non-negative square root of a rational (Math.sqrt), or a rational       *)
(* divided by such a root.  IEEE-754 rounding is not modelled.             *)
(* A sample's date is the pair (year, day); new Date(date).getFullYear()   *)
(* is its year field (the runtime's zone is taken to be UTC, Ghana time).  *)
(***************************************************************************)
EXTENDS Integers, Sequences, FiniteSets, TLC

VARIABLES
    marketData,       \* useState([])        : the loaded list of stocks
    selectedStock,    \* useState(null)      : Null or one stock object
    loading,          \* useState(true)
    error,            \* useState(null)      : Null or a message
    searchTerm,       \* useState("")
    timeRange,        \* useState("1Y")      : the window token
    today,            \* the wall clock's calendar year, what new Date() reads
    currentYear,      \* const currentYear = new Date().getFullYear(), as last read
    metrics,          \* const metrics = getMetrics(selectedStock)
    filteredHistory,  \* const filteredHistory = getFilteredHistory(selectedStock)
    csv,              \* the file the last click on Download CSV produced
    seen              \* one earlier invocation, kept to compare later ones with

vars == <<marketData, selectedStock, loading, error, searchTerm, timeRange, today,
          currentYear, metrics, filteredHistory, csv, seen>>

----------------------------------------------------------------------------
(* Bounds of the model *)

MaxClose == 2     \* closes are drawn from absent, 0, 1..MaxClose
MaxLen == 3       \* short histories: every sequence of at most MaxLen samples
MaxYear == 2      \* the clock runs from year 1 to MaxYear; samples are dated 0 to 2
MaxStocks == 2    \* gse_data.json lists at most MaxStocks stocks

----------------------------------------------------------------------------
(* JavaScript values *)

Null == [t |-> "null"]
Undefined == [t |-> "undefined"]
NaN == [t |-> "nan"]
Infinity == [t |-> "inf"]
FunctionObject == [t |-> "function"]    \* e.g. Object.prototype.constructor
TypeError == [t |-> "TypeError"]        \* a thrown "cannot read properties of null"
String(text) == [t |-> "string", text |-> text]

Max(a, b) == IF a >= b THEN a ELSE b
Min(a, b) == IF a <= b THEN a ELSE b
Abs(a) == IF a < 0 THEN -a ELSE a

RECURSIVE GCD(_, _)
GCD(a, b) == IF b = 0 THEN a ELSE GCD(b, a % b)

\* The number n/d (d # 0) in lowest terms with a positive denominator.
Num(n, d) ==
    LET g == GCD(Abs(n), Abs(d))
        s == IF d < 0 THEN -1 ELSE 1
    IN  [t |-> "num", n |-> s * (n \div g), d |-> s * (d \div g)]

N(i) == [t |-> "num", n |-> i, d |-> 1]

\* Math.sqrt of a non-negative number.
Root(n, d) == [t |-> "root", n |-> Num(n, d).n, d |-> Num(n, d).d]

IsRational(v) == v.t = "num"
IsNumber(v) == v.t \in {"num", "root", "quot"}
IsNull(v) == v \in {Null, Undefined}       \* what `v == null` tests in JavaScript

\* obj.field on an object: undefined when it has no such own property.
Field(obj, f) == IF f \in DOMAIN obj THEN obj[f] ELSE Undefined

\* obj.field on any value: reading a property of null or undefined throws.
Throws(obj) == obj \in {Null, Undefined}

\* ToNumber: undefined -> NaN, null -> 0.
ToNumber(v) ==
    CASE v = Undefined -> NaN
      [] v = Null -> N(0)
      [] OTHER -> v

\* ToBoolean of a tagged value or an object (objects and functions are truthy).
Truthy(v) ==
    CASE "t" \notin DOMAIN v -> TRUE
      [] v.t \in {"null", "undefined", "nan"} -> FALSE
      [] v.t \in {"num", "root"} -> v.n # 0
      [] v.t = "string" -> v.text # ""
      [] OTHER -> TRUE

\* a > 0 and a <= 0 (false whenever ToNumber(a) is NaN).
JsGT0(v) == LET a == ToNumber(v) IN a.t \in {"num", "root", "quot"} /\ a.n > 0
JsLE0(v) == LET a == ToNumber(v) IN a.t \in {"num", "root", "quot"} /\ a.n <= 0

RatAdd(a, b) ==
    LET g == GCD(a.d, b.d)
        l == (a.d \div g) * b.d
    IN  Num(a.n * (l \div a.d) + b.n * (l \div b.d), l)

RatNeg(a) == [t |-> "num", n |-> -a.n, d |-> a.d]

RatMul(a, b) ==
    LET g1 == GCD(Abs(a.n), b.d)
        g2 == GCD(Abs(b.n), a.d)
    IN  Num((a.n \div g1) * (b.n \div g2), (a.d \div g2) * (b.d \div g1))

RatInv(a) == Num(a.d, a.n)

\* a + b, a - b, a * b, a / b on JavaScript values.
JsAdd(x, y) ==
    LET a == ToNumber(x)
        b == ToNumber(y)
    IN  IF IsRational(a) /\ IsRational(b) THEN RatAdd(a, b) ELSE NaN

JsSub(x, y) ==
    LET a == ToNumber(x)
        b == ToNumber(y)
    IN  IF IsRational(a) /\ IsRational(b) THEN RatAdd(a, RatNeg(b)) ELSE NaN

JsMul(x, y) ==
    LET a == ToNumber(x)
        b == ToNumber(y)
    IN  CASE IsRational(a) /\ IsRational(b) -> RatMul(a, b)
          [] a.t = "root" /\ b.t = "root" ->
                LET r == RatMul(Num(a.n, a.d), Num(b.n, b.d)) IN Root(r.n, r.d)
          [] a.t = "root" /\ IsRational(b) /\ b.n >= 0 ->
                LET r == RatMul(RatMul(Num(a.n, a.d), b), b) IN Root(r.n, r.d)
          [] OTHER -> NaN

JsDiv(x, y) ==
    LET a == ToNumber(x)
        b == ToNumber(y)
    IN  CASE IsRational(a) /\ IsRational(b) ->
                IF b.n # 0 THEN RatMul(a, RatInv(b))
                ELSE IF a.n = 0 THEN NaN ELSE Infinity
          [] a.t = "root" /\ IsRational(b) /\ b.n > 0 ->
                LET r == RatMul(RatMul(Num(a.n, a.d), RatInv(b)), RatInv(b))
                IN  Root(r.n, r.d)
          [] IsRational(a) /\ b.t = "root" ->
                \* the quotient of the rational n/d by the root of rn/rd
                IF b.n # 0 THEN [t |-> "quot", n |-> a.n, d |-> a.d, rn |-> b.n, rd |-> b.d]
                ELSE IF a.n = 0 THEN NaN ELSE Infinity
          [] OTHER -> NaN

\* Math.sqrt(x), Math.pow(x, 2)
MathSqrt(x) ==
    LET a == ToNumber(x)
    IN  IF IsRational(a) /\ a.n >= 0 THEN Root(a.n, a.d) ELSE NaN

MathPow2(x) == JsMul(x, x)

\* array.slice(-count) for count a length or a window size: the trailing
\* min(count, length) elements; slice(-0) is slice(0), the whole array.
SliceLast(s, count) ==
    LET start == IF count > 0 THEN Max(Len(s) - count, 0) ELSE 0
    IN  SubSeq(s, start + 1, Len(s))

\* array.reduce((a, b) => a + b, 0).  Addition of exact numbers is associative,
\* so the sum is taken by halves (a left fold of 50 terms is too deep for TLC).
RECURSIVE SumRange(_, _, _)
SumRange(s, lo, hi) ==
    IF lo > hi THEN N(0)
    ELSE IF lo = hi THEN JsAdd(N(0), s[lo])
    ELSE LET mid == (lo + hi) \div 2
         IN  JsAdd(SumRange(s, lo, mid), SumRange(s, mid + 1, hi))
ReduceSum(s) == SumRange(s, 1, Len(s))

----------------------------------------------------------------------------
(* Configuration *)

\* const RISK_FREE_RATE = 0.111969
RISK_FREE_RATE == Num(111969, 1000000)

----------------------------------------------------------------------------
(* Range selector: getFilteredHistory, src/src/App.jsx 110-135 *)

NotRendered == [t |-> "notRendered"]
Array(s) == [t |-> "array", items |-> s]

\* new Date(h.date).getFullYear()
FullYear(date) == date.year

\* stock?.history is truthy: there is a stock and it has a history array.
\* (A history that is present is an array, and arrays are truthy.)
HasHistory(stock) == ~Throws(stock) /\ "history" \in DOMAIN stock

\* Mutant: the filter keeps every sample from the current year on (>=).
FilterYear_FromYear(history, year) ==
    SelectSeq(history, LAMBDA h : FullYear(h.date) >= year)

\* history.filter(h => new Date(h.date).getFullYear() === currentYear)
FilterYear(history, year) ==
    SelectSeq(history, LAMBDA h : FullYear(h.date) = year)

\* const ranges = {"1M": 21, ..., "ALL": history.length}
ranges(history) ==
    [r \in {"1M", "3M", "6M", "1Y", "5Y", "ALL"} |->
        CASE r = "1M" -> N(21)
          [] r = "3M" -> N(63)
          [] r = "6M" -> N(126)
          [] r = "1Y" -> N(252)
          [] r = "5Y" -> N(1260)
          [] r = "ALL" -> N(Len(history))]

\* ranges[timeRange]: an own property, else what Object.prototype gives.
RangeLookup(history, range) ==
    IF range \in DOMAIN ranges(history) THEN ranges(history)[range]
    ELSE IF range \in {"constructor", "toString"} THEN FunctionObject
    ELSE Undefined

\* const days = ranges[timeRange] || history.length
RangeDays(history, range) ==
    LET r == RangeLookup(history, range)
    IN  IF Truthy(r) THEN r ELSE N(Len(history))

\* Mutant: history.slice(0, days), the leading samples instead of the trailing ones.
SliceDays_Leading(history, days) ==
    IF IsRational(days) THEN SubSeq(history, 1, Min(days.n, Len(history))) ELSE history

\* history.slice(-days): ToIntegerOrInfinity(-days) is 0 when -days is NaN.
SliceDays(history, days) ==
    IF IsRational(days) THEN SliceLast(history, days.n) ELSE SliceLast(history, 0)

\* Mutant: the year is the one an earlier render read, not the clock's.
FilteredHistoryOf_StaleYear(stock, range) ==
    IF Throws(stock) THEN TypeError
    ELSE IF range = "YTD" THEN Array(FilterYear(stock.history, currentYear))
    ELSE Array(SliceDays(stock.history, RangeDays(stock.history, range)))

\* The body after the guard: stock.history is read from the stock.
FilteredHistoryOf(stock, range) ==
    IF Throws(stock) THEN TypeError
    ELSE IF range = "YTD" THEN Array(FilterYear(stock.history, today))
    ELSE Array(SliceDays(stock.history, RangeDays(stock.history, range)))

\* `range` is the timeRange the closure of the render in progress holds.
getFilteredHistory(stock, range) ==
    IF ~HasHistory(stock) THEN Array(<<>>) ELSE FilteredHistoryOf(stock, range)

----------------------------------------------------------------------------
(* Metrics engine: getMetrics, src/src/App.jsx 163-244 *)

EmptyObject == <<>>      \* the object literal {}

\* Mutant: filter(p => p >= 0), a zero close counted as a valid price.
Prices_ZeroValid(history) ==
    SelectSeq([i \in 1..Len(history) |-> Field(history[i], "close")],
              LAMBDA p : ToNumber(p).t = "num" /\ ToNumber(p).n >= 0)

\* history.map(h => h.close).filter(p => p > 0)
Prices(history) ==
    SelectSeq([i \in 1..Len(history) |-> Field(history[i], "close")], JsGT0)

\* Mutant: prices.slice(-n + 1), a window one price short.
MovingAverage_ShortWindow(prices, n) ==
    IF Len(prices) >= n THEN JsDiv(ReduceSum(SliceLast(prices, n - 1)), N(n)) ELSE Null

\* prices.length >= n ? prices.slice(-n).reduce((a, b) => a + b, 0) / n : null
MovingAverage(prices, n) ==
    IF Len(prices) >= n THEN JsDiv(ReduceSum(SliceLast(prices, n)), N(n)) ELSE Null

\* for (i = 1; i < prices.length; i++) if (prices[i-1] > 0) dailyReturns.push(...)
DailyReturns(prices) ==
    LET idx == SelectSeq([i \in 1..(Len(prices) - 1) |-> i], LAMBDA i : JsGT0(prices[i]))
    IN  [j \in 1..Len(idx) |->
            JsDiv(JsSub(prices[idx[j] + 1], prices[idx[j]]), prices[idx[j]])] \o <<>>

\* const recentReturns = dailyReturns.slice(-30)
RecentReturns(dailyReturns) == SliceLast(dailyReturns, 30)

\* recentReturns.reduce((a, b) => a + b, 0) / recentReturns.length
Mean(recentReturns) == JsDiv(ReduceSum(recentReturns), N(Len(recentReturns)))

\* Mutant: the sample variance, the sum divided by (length - 1).
Variance_Sample(recentReturns) ==
    LET mean == Mean(recentReturns)
        sq == [k \in 1..Len(recentReturns) |-> MathPow2(JsSub(recentReturns[k], mean))]
    IN  JsDiv(ReduceSum(sq \o <<>>), N(Len(recentReturns) - 1))

\* recentReturns.reduce((a, b) => a + Math.pow(b - mean, 2), 0) / recentReturns.length
Variance(recentReturns) ==
    LET mean == Mean(recentReturns)
        sq == [k \in 1..Len(recentReturns) |-> MathPow2(JsSub(recentReturns[k], mean))]
    IN  JsDiv(ReduceSum(sq \o <<>>), N(Len(recentReturns)))

\* Mutant: a volatility of zero reported as null, as `dailyVol ? ... : null` would.
Volatility_NullWhenZero(dailyReturns) ==
    IF Len(dailyReturns) >= 20 /\ Truthy(MathSqrt(Variance(RecentReturns(dailyReturns))))
    THEN JsMul(JsMul(MathSqrt(Variance(RecentReturns(dailyReturns))), MathSqrt(N(252))),
               N(100))
    ELSE Null

\* volatility = Math.sqrt(variance) * Math.sqrt(252) * 100, when 20 returns exist
Volatility(dailyReturns) ==
    IF Len(dailyReturns) >= 20
    THEN JsMul(JsMul(MathSqrt(Variance(RecentReturns(dailyReturns))), MathSqrt(N(252))),
               N(100))
    ELSE Null

\* Mutant: the division without the `volatility > 0` guard.
SharpeRatio_NoZeroGuard(dailyReturns, volatility) ==
    IF Len(dailyReturns) >= 20
    THEN JsDiv(JsSub(JsMul(Mean(RecentReturns(dailyReturns)), N(252)), RISK_FREE_RATE),
               JsDiv(volatility, N(100)))
    ELSE Null

\* sharpeRatio = (mean * 252 - RISK_FREE_RATE) / (volatility / 100), when volatility > 0
SharpeRatio(dailyReturns, volatility) ==
    IF Len(dailyReturns) >= 20 /\ JsGT0(volatility)
    THEN JsDiv(JsSub(JsMul(Mean(RecentReturns(dailyReturns)), N(252)), RISK_FREE_RATE),
               JsDiv(volatility, N(100)))
    ELSE Null

\* Mutant: oldPrice = prices[prices.length - days], one sample too late.
getReturn_OffByOne(prices, days) ==
    IF Len(prices) < days + 1 THEN Null
    ELSE LET oldPrice == prices[Len(prices) - days + 1]
             newPrice == prices[Len(prices)]
         IN  IF JsLE0(oldPrice) THEN Null
             ELSE JsMul(JsDiv(JsSub(newPrice, oldPrice), oldPrice), N(100))

getReturn(prices, days) ==
    IF Len(prices) < days + 1 THEN Null
    ELSE LET oldPrice == prices[Len(prices) - days]
             newPrice == prices[Len(prices)]
         IN  IF JsLE0(oldPrice) THEN Null
             ELSE JsMul(JsDiv(JsSub(newPrice, oldPrice), oldPrice), N(100))

\* history.filter(h => new Date(h.date).getFullYear() === currentYear), for the YTD return
YtdHistory(history) == SelectSeq(history, LAMBDA h : FullYear(h.date) = today)

\* let ytdReturn = null; if (history.length > 0) { ... }
YtdReturn(history) ==
    LET ytdHistory == YtdHistory(history)
    IN  IF Len(history) > 0 /\ Len(ytdHistory) > 1
        THEN LET firstPrice == Field(ytdHistory[1], "close")
                 lastPrice == Field(ytdHistory[Len(ytdHistory)], "close")
             IN  IF JsGT0(firstPrice)
                 THEN JsMul(JsDiv(JsSub(lastPrice, firstPrice), firstPrice), N(100))
                 ELSE Null
        ELSE Null

\* Mutant: the metrics taken over the history the window leaves.
MetricsOf_Windowed(stock) ==
    IF Throws(stock) THEN TypeError
    ELSE LET history == getFilteredHistory(stock, timeRange).items
             prices == Prices(history)
             dailyReturns == DailyReturns(prices)
             volatility == Volatility(dailyReturns)
         IN  IF Len(prices) < 2 THEN EmptyObject
             ELSE [ma20 |-> MovingAverage(prices, 20),
                   ma50 |-> MovingAverage(prices, 50),
                   volatility |-> volatility,
                   sharpeRatio |-> SharpeRatio(dailyReturns, volatility),
                   return1W |-> getReturn(prices, 5),
                   return1M |-> getReturn(prices, 21),
                   return3M |-> getReturn(prices, 63),
                   return6M |-> getReturn(prices, 126),
                   return1Y |-> getReturn(prices, 252),
                   ytdReturn |-> YtdReturn(history)]

\* The body after the guard `if (!stock) return {}`: stock.history is read.
MetricsOf(stock) ==
    IF Throws(stock) THEN TypeError
    ELSE LET history == IF "history" \in DOMAIN stock THEN stock.history ELSE <<>>
             prices == Prices(history)
             dailyReturns == DailyReturns(prices)
             volatility == Volatility(dailyReturns)
         IN  IF Len(prices) < 2 THEN EmptyObject
             ELSE [ma20 |-> MovingAverage(prices, 20),
                   ma50 |-> MovingAverage(prices, 50),
                   volatility |-> volatility,
                   sharpeRatio |-> SharpeRatio(dailyReturns, volatility),
                   return1W |-> getReturn(prices, 5),
                   return1M |-> getReturn(prices, 21),
                   return3M |-> getReturn(prices, 63),
                   return6M |-> getReturn(prices, 126),
                   return1Y |-> getReturn(prices, 252),
                   ytdReturn |-> YtdReturn(history)]

\* Mutant: getMetrics without its first line, `if (!stock) return {}`.
getMetrics_NoGuard(stock) == MetricsOf(stock)

getMetrics(stock) == IF ~Truthy(stock) THEN EmptyObject ELSE MetricsOf(stock)

----------------------------------------------------------------------------
(* Statistics display: the cards of the render, src/src/App.jsx 49-64 and 454-496 *)

NA == String("N/A")

\* value.toFixed(2): the text of a number; its digits are not worked out here, only
\* whose digits they are.  NaN and Infinity print as their names.
ToFixed2(v) ==
    CASE v = NaN -> String("NaN")
      [] v = Infinity -> String("Infinity")
      [] OTHER -> [t |-> "digits", of |-> v]

\* A card's text: `${prefix}${value.toFixed(2)}${suffix}`
Shown(prefix, v, suffix) ==
    [t |-> "shown", prefix |-> prefix, number |-> ToFixed2(v), suffix |-> suffix]

\* value >= 0 (false when ToNumber(value) is NaN)
JsGE0(v) == LET a == ToNumber(v) IN a.t \in {"num", "root", "quot"} /\ a.n >= 0

\* metrics.ma20 ? `GH₵ ${metrics.ma20.toFixed(2)}` : 'N/A', lines 454-455
MovingAverageCard(value) == IF Truthy(value) THEN Shown("GHS ", value, "") ELSE NA

\* metrics.volatility ? `${metrics.volatility.toFixed(2)}%` : 'N/A', line 465
VolatilityCard(value) == IF Truthy(value) THEN Shown("", value, "%") ELSE NA

\* metrics.sharpeRatio !== null && metrics.sharpeRatio !== undefined ? ... : 'N/A', line 470
SharpeCard(value) ==
    IF value # Null /\ value # Undefined THEN Shown("", value, "") ELSE NA

\* PerformanceCard, lines 49-64
PerformanceCard(value) ==
    LET isNA == value = Null \/ value = Undefined
        isPositive == ~isNA /\ JsGE0(value)
    IN  IF isNA THEN NA ELSE Shown(IF isPositive THEN "+" ELSE "", value, "%")

\* What the cards show for the result m of getMetrics, field by field.
StatisticsDisplay(m) ==
    [ma20 |-> MovingAverageCard(Field(m, "ma20")),
     ma50 |-> MovingAverageCard(Field(m, "ma50")),
     volatility |-> VolatilityCard(Field(m, "volatility")),
     sharpeRatio |-> SharpeCard(Field(m, "sharpeRatio")),
     return1W |-> PerformanceCard(Field(m, "return1W")),
     return1M |-> PerformanceCard(Field(m, "return1M")),
     return3M |-> PerformanceCard(Field(m, "return3M")),
     return6M |-> PerformanceCard(Field(m, "return6M")),
     return1Y |-> PerformanceCard(Field(m, "return1Y")),
     ytdReturn |-> PerformanceCard(Field(m, "ytdReturn"))]

----------------------------------------------------------------------------
(* Inputs: the histories the functions are applied to *)

Tokens == {"1M", "3M", "6M", "YTD", "1Y", "5Y", "ALL"}     \* the buttons, line 370
AllTokens == Tokens \cup {"MAX", "constructor"}            \* and unrecognized ones

\* A close is absent (a missing price), zero, or a positive price.
CloseValues == {Undefined} \cup {N(i) : i \in 0..MaxClose}

Date(y, d) == [year |-> y, day |-> d]

Sample(date, c) ==
    IF c = Undefined THEN [date |-> date] ELSE [date |-> date, close |-> c]

SeqsUpTo(S, n) == UNION {[1..k -> S] : k \in 0..n}

\* Short histories for the metrics: any closes, dated last year (0) or this year (1).
MetricSamples == {Sample(Date(y, 1), c) : y \in {0, 1}, c \in CloseValues}
ShortMetricHistories == SeqsUpTo(MetricSamples, MaxLen)

\* Short histories for the selector: any dates, in any order, duplicates included.
SelectSamples ==
    {Sample(d, N(1)) : d \in {Date(0, 1), Date(1, 1), Date(1, 2), Date(2, 1)}}
ShortSelectHistories == SeqsUpTo(SelectSamples, MaxLen)

\* Long histories: k generated samples followed by at most one free sample.
\*   flat  : every close 1, dated last year
\*   saw   : closes 1, 2, 1, 2, ... dated this year
\*   gappy : as saw, but every third close is missing; the last 3 are this year's
\*   level : every close MaxClose, dated this year
PadKinds == {"flat", "saw", "gappy", "level"}

PadClose(kind, i) ==
    CASE kind = "flat" -> N(1)
      [] kind = "level" -> N(MaxClose)
      [] kind = "saw" -> N(1 + (i % 2))
      [] kind = "gappy" -> IF i % 3 = 0 THEN Undefined ELSE N(1 + (i % 2))

PadYear(kind, i, k) ==
    CASE kind = "flat" -> 0
      [] kind = "level" -> 1
      [] kind = "saw" -> 1
      [] kind = "gappy" -> IF i > k - 3 THEN 1 ELSE 0

Pad(kind, k) == [i \in 1..k |-> Sample(Date(PadYear(kind, i, k), i), PadClose(kind, i))]

\* The counts of valid prices at which a metric appears, and the count below each.
MetricCounts == UNION {{c - 1, c} : c \in {6, 20, 21, 22, 31, 50, 64, 127, 253}}

\* The lengths that give a pad such a count of valid prices.
PadLens(kind) ==
    IF kind = "gappy" THEN {k \in 1..380 : (k - (k \div 3)) \in MetricCounts}
    ELSE MetricCounts

\* Lengths around every count the selector cuts at.
SelectPadLens == UNION {{c - 1, c, c + 1} : c \in {21, 63, 126, 252, 1260}}

Tails(S) == {<<>>} \cup {<<s>> : s \in S}

LongMetricHistories ==
    UNION {{Pad(kind, k) \o tail : k \in PadLens(kind), tail \in Tails(MetricSamples)} :
              kind \in PadKinds}

LongSelectHistories ==
    {Pad("gappy", k) \o tail : k \in SelectPadLens, tail \in Tails(SelectSamples)}

GCB == <<"G", "C", "B">>
MTN == <<"M", "T", "N">>
CAL == <<"C", "A", "L">>

Stock(sym, nm, h) == [symbol |-> sym, name |-> nm, history |-> h]
StockWithoutHistory(sym, nm) == [symbol |-> sym, name |-> nm]

MetricInputs ==
    {Null, StockWithoutHistory(GCB, <<"B", "a", "n", "k">>)}
        \cup {Stock(GCB, <<"B", "a", "n", "k">>, h) :
                h \in ShortMetricHistories \cup LongMetricHistories}

SelectInputs ==
    {Null, StockWithoutHistory(GCB, <<"B", "a", "n", "k">>)}
        \cup {Stock(GCB, <<"B", "a", "n", "k">>, h) :
                h \in ShortSelectHistories \cup LongSelectHistories}

----------------------------------------------------------------------------
(* The two functions applied to any well-typed input *)

NotDownloaded == [t |-> "notDownloaded"]
NotSeen == [t |-> "notSeen"]

InitFn ==
    /\ \/ selectedStock \in MetricInputs /\ timeRange = "1Y"
       \/ selectedStock \in SelectInputs /\ timeRange \in AllTokens
    /\ today \in 1..MaxYear
    /\ currentYear = today
    /\ marketData = <<>>
    /\ loading = FALSE
    /\ error = Null
    /\ searchTerm = <<>>
    /\ metrics = NotRendered
    /\ filteredHistory = NotRendered
    /\ csv = NotDownloaded
    /\ seen = NotSeen

\* const metrics = getMetrics(stock)
CallGetMetrics ==
    /\ metrics = NotRendered
    /\ metrics' = getMetrics(selectedStock)
    /\ currentYear' = today
    /\ UNCHANGED <<marketData, selectedStock, loading, error, searchTerm, timeRange,
                   today, filteredHistory, csv, seen>>

\* const filteredHistory = getFilteredHistory(stock)
CallGetFilteredHistory ==
    /\ filteredHistory = NotRendered
    /\ filteredHistory' = getFilteredHistory(selectedStock, timeRange)
    /\ currentYear' = today
    /\ UNCHANGED <<marketData, selectedStock, loading, error, searchTerm, timeRange,
                   today, metrics, csv, seen>>

NextFn == CallGetMetrics \/ CallGetFilteredHistory

SpecFn == InitFn /\ [][NextFn]_vars

----------------------------------------------------------------------------
(* Properties of the two functions, checked under SpecFn *)

MetricFields ==
    {"ma20", "ma50", "volatility", "sharpeRatio", "return1W", "return1M",
     "return3M", "return6M", "return1Y", "ytdReturn"}

\* The history the functions were given (none, for no stock or a stock without one).
TheHistory ==
    IF selectedStock # Null /\ "history" \in DOMAIN selectedStock
    THEN selectedStock.history ELSE <<>>

\* A valid close is present and strictly positive.
IsValidClose(sample) ==
    "close" \in DOMAIN sample /\ sample.close.t = "num" /\ sample.close.n > 0

\* The valid-price sequence: the closes of the valid samples, in order.
ValidPrices ==
    LET h == TheHistory
        idx == SelectSeq([i \in 1..Len(h) |-> i], LAMBDA i : IsValidClose(h[i]))
    IN  [j \in 1..Len(idx) |-> h[idx[j]].close] \o <<>>

\* The samples dated in the year the call read from the clock, in original order.
ThisYearSamples == SelectSeq(TheHistory, LAMBDA h : h.date.year = currentYear)

MetricsComputed == metrics # NotRendered
SelectCalled == filteredHistory # NotRendered
IsZero(v) == v.t \in {"num", "root"} /\ v.n = 0

\* r is (new - old) / old * 100, stated without division.
IsPercentChange(r, old, new) ==
    IsRational(r) /\ RatMul(r, old) = RatMul(RatAdd(new, RatNeg(old)), N(100))

\* C1: with fewer than 2 valid closes, every field of the result of getMetrics is
\* null (absent from the returned object), however many samples are dated this year.
C1_InsufficientDataAllNull ==
    (MetricsComputed /\ Len(ValidPrices) < 2) =>
        \A f \in MetricFields : IsNull(Field(metrics, f))

\* C1 witness: one valid close, and two samples of this year, the first one valid.
C1_Witness ==
    /\ MetricsComputed
    /\ Len(ValidPrices) = 1
    /\ Len(ThisYearSamples) >= 2
    /\ IsValidClose(ThisYearSamples[1])

Lookbacks ==
    {<<"return1W", 5>>, <<"return1M", 21>>, <<"return3M", 63>>, <<"return6M", 126>>,
     <<"return1Y", 252>>}

\* C2: with at least 2 valid prices, the period return of look-back n is null iff
\* fewer than n+1 valid prices exist, and otherwise it is
\* (p[last] - p[last-n]) / p[last-n] * 100 over the valid-price sequence p.
C2_PeriodReturns ==
    (MetricsComputed /\ Len(ValidPrices) >= 2) =>
        \A lb \in Lookbacks :
            LET r == Field(metrics, lb[1])
                n == lb[2]
                p == ValidPrices
            IN  /\ IsNull(r) <=> Len(p) < n + 1
                /\ ~IsNull(r) => IsPercentChange(r, p[Len(p) - n], p[Len(p)])

\* C2 witness: a history with invalid closes in it and 253 valid ones or more, so that
\* the 1-year return exists and is taken over the valid prices.
C2_Witness ==
    /\ MetricsComputed
    /\ Len(ValidPrices) >= 253
    /\ Len(TheHistory) > Len(ValidPrices)
    /\ ~IsNull(Field(metrics, "return1Y"))

Windows == {<<"ma20", 20>>, <<"ma50", 50>>}

\* C3: a moving average of window w is null when fewer than w valid prices exist and
\* otherwise is the sum of the last w valid prices divided by w.
C3_MovingAverages ==
    MetricsComputed =>
        \A mw \in Windows :
            LET m == Field(metrics, mw[1])
                w == mw[2]
                p == ValidPrices
            IN  /\ IsNull(m) <=> Len(p) < w
                /\ ~IsNull(m) =>
                      /\ IsRational(m)
                      /\ RatMul(m, N(w)) = ReduceSum(SubSeq(p, Len(p) - w + 1, Len(p)))

\* C3 witness: 50 valid prices or more among a longer history with invalid closes.
C3_Witness ==
    /\ MetricsComputed
    /\ Len(ValidPrices) >= 50
    /\ Len(TheHistory) > Len(ValidPrices)
    /\ ~IsNull(Field(metrics, "ma50"))

\* C4: volatility and sharpeRatio are null with fewer than 21 valid prices (20 daily
\* returns); with 21 or more, volatility is a number and sharpeRatio is null exactly
\* when that volatility is zero.
C4_VolatilityAndSharpe ==
    MetricsComputed =>
        LET v == Field(metrics, "volatility")
            sh == Field(metrics, "sharpeRatio")
        IN  /\ Len(ValidPrices) < 21 => IsNull(v) /\ IsNull(sh)
            /\ Len(ValidPrices) >= 21 =>
                  /\ IsNumber(v)
                  /\ IsNull(sh) <=> IsZero(v)
                  /\ ~IsNull(sh) => IsNumber(sh)

\* C4 witness: 21 valid prices or more, a volatility of zero and no Sharpe ratio.
C4_Witness ==
    /\ MetricsComputed
    /\ Len(ValidPrices) >= 21
    /\ IsZero(Field(metrics, "volatility"))
    /\ Field(metrics, "sharpeRatio") = Null

\* C5: with at least 2 valid prices, returnYTD is null when fewer than 2 samples are
\* dated this year or the first of them has no positive close, and otherwise it is
\* (lastCloseInYear - firstCloseInYear) / firstCloseInYear * 100.
C5_YearToDateReturn ==
    (MetricsComputed /\ Len(ValidPrices) >= 2) =>
        LET y == ThisYearSamples
            r == Field(metrics, "ytdReturn")
        IN  IF Len(y) < 2 \/ ~IsValidClose(y[1]) THEN r = Null
            ELSE /\ "close" \in DOMAIN y[Len(y)]
                 /\ IsPercentChange(r, y[1].close, y[Len(y)].close)

\* Token -> number of trading days; ALL and unrecognized tokens: the whole history.
WindowCount(token, length) ==
    CASE token = "1M" -> 21
      [] token = "3M" -> 63
      [] token = "6M" -> 126
      [] token = "1Y" -> 252
      [] token = "5Y" -> 1260
      [] OTHER -> length

\* C6: for every token but YTD, getFilteredHistory returns the trailing
\* min(count, length) samples in original order; ALL and unrecognized tokens give
\* the whole history.
C6_TrailingWindow ==
    (SelectCalled /\ timeRange # "YTD") =>
        LET h == TheHistory
            r == filteredHistory.items
            m == Min(WindowCount(timeRange, Len(h)), Len(h))
        IN  /\ Len(r) = m
            /\ \A i \in 1..m : r[i] = h[Len(h) - m + i]
            /\ timeRange \notin {"1M", "3M", "6M", "1Y", "5Y"} => r = h

\* C6 witness: the 5Y window cutting a history of more than 1260 samples.
C6_Witness ==
    /\ SelectCalled
    /\ timeRange = "5Y"
    /\ Len(TheHistory) > 1260
    /\ Len(filteredHistory.items) = 1260

\* C7: for YTD, getFilteredHistory returns exactly the samples dated in the current
\* year, in their original relative order, whatever the order of the input; an
\* empty history gives an empty result for every token.
C7_YearToDateWindow ==
    /\ (SelectCalled /\ timeRange = "YTD") =>
          LET h == TheHistory
              r == filteredHistory.items
              idx == {i \in 1..Len(h) : h[i].date.year = currentYear}
          IN  /\ Len(r) = Cardinality(idx)
              /\ \A k \in idx : r[Cardinality({i \in idx : i <= k})] = h[k]
    /\ (SelectCalled /\ Len(TheHistory) = 0) => filteredHistory.items = <<>>

\* C7 witness: an unsorted history with a duplicate date: a sample of this year, one
\* of another year after it, and then the first date again.
C7_Witness ==
    /\ SelectCalled
    /\ timeRange = "YTD"
    /\ \E i, j, k \in 1..Len(TheHistory) :
          /\ i < j /\ j < k
          /\ TheHistory[i].date.year = currentYear
          /\ TheHistory[j].date.year # currentYear
          /\ TheHistory[k].date = TheHistory[i].date

\* C9: neither function throws: for no stock, a stock without a history, missing or
\* non-positive closes and any token, each call returns a value.
C9_NeverRaises == metrics # TypeError /\ filteredHistory # TypeError

\* C9 witness: both functions called with no stock at all.
C9_Witness ==
    /\ selectedStock = Null
    /\ metrics = EmptyObject
    /\ filteredHistory = Array(<<>>)

----------------------------------------------------------------------------
(* The component GSEApp: state, data fetching, handlers and rendering *)

\* Strings that are searched are sequences of characters.
Lower(c) ==
    CASE c = "A" -> "a" [] c = "B" -> "b" [] c = "C" -> "c" [] c = "G" -> "g"
      [] c = "L" -> "l" [] c = "M" -> "m" [] c = "N" -> "n" [] c = "T" -> "t"
      [] OTHER -> c

\* text.toLowerCase(), text.includes(term)
ToLowerCase(text) == [i \in 1..Len(text) |-> Lower(text[i])] \o <<>>
Includes(text, term) ==
    \E k \in 0..(Len(text) - Len(term)) : SubSeq(text, k + 1, k + Len(term)) = term

\* const filteredStocks = marketData.filter(stock => ...), lines 157-160
MatchesSearch(stock) ==
    \/ /\ "symbol" \in DOMAIN stock /\ stock.symbol # <<>>
       /\ Includes(ToLowerCase(stock.symbol), ToLowerCase(searchTerm))
    \/ /\ "name" \in DOMAIN stock /\ stock.name # <<>>
       /\ Includes(ToLowerCase(stock.name), ToLowerCase(searchTerm))

filteredStocks == SelectSeq(marketData, MatchesSearch)

\* The stocks gse_data.json can hold: one with a long history with gaps, two that
\* share a short unsorted history whose rows carry the optional fields.
ShortHistory ==
    << [date |-> Date(1, 2), close |-> N(2), volume |-> N(100), change |-> N(1)],
       [date |-> Date(0, 1), close |-> N(1), changePercent |-> N(0)],
       [date |-> Date(1, 1)],
       [date |-> Date(2, 1), close |-> N(1)] >>

Listing ==
    << Stock(GCB, <<"B", "a", "n", "k">>, Pad("gappy", 25)),
       Stock(MTN, <<"T", "e", "l", "c", "o">>, ShortHistory),
       Stock(CAL, <<"B", "a", "n", "k">>, ShortHistory) >>

AppStocks == {Listing[i] : i \in 1..Len(Listing)}
ListingIndex(stock) == CHOOSE i \in 1..Len(Listing) : Listing[i] = stock

\* The lists of stocks the file can hold: up to MaxStocks of the listing, in its order.
StockLists ==
    {stocks \in SeqsUpTo(AppStocks, MaxStocks) :
        \A i \in 1..(Len(stocks) - 1) :
            ListingIndex(stocks[i]) < ListingIndex(stocks[i + 1])}
SearchTerms == {<<>>, <<"T">>, <<"z">>}
ErrorMessages == {"Data file not found", "Invalid JSON format", "Unexpected token"}

\* Mutant: the render without its test for an empty list and for no selected stock.
Rendered_NoEmptyCheck ==
    /\ ~loading
    /\ ~Truthy(error)

\* The early returns of the render, lines 247-279: the dashboard is rendered, and
\* the two functions are called, only past all of them.
Rendered ==
    /\ ~loading
    /\ ~Truthy(error)
    /\ Len(marketData) # 0
    /\ Truthy(selectedStock)

\* One invocation of the two functions: what they were given and what they returned.
Invocation ==
    [stock |-> selectedStock, range |-> timeRange, year |-> currentYear,
     metrics |-> metrics, filteredHistory |-> filteredHistory]

\* The render that follows every state change, lines 247-282: with the new state
\* past the early returns it reads the clock and calls the two functions on `stock`,
\* the new selectedStock, with `range`, the new timeRange.
RenderView(stock, range) ==
    /\ currentYear' = IF Rendered' THEN today ELSE currentYear
    /\ metrics' = IF Rendered' THEN getMetrics(stock) ELSE NotRendered
    /\ filteredHistory' = IF Rendered' THEN getFilteredHistory(stock, range) ELSE NotRendered
    /\ seen' \in IF seen = NotSeen /\ Rendered' THEN {NotSeen, Invocation'} ELSE {seen}

Init ==
    /\ marketData = <<>>
    /\ selectedStock = Null
    /\ loading = TRUE
    /\ error = Null
    /\ searchTerm = <<>>
    /\ timeRange = "1Y"
    /\ today = 1
    /\ currentYear = 1
    /\ metrics = NotRendered
    /\ filteredHistory = NotRendered
    /\ csv = NotDownloaded
    /\ seen = NotSeen

\* fetchData, the fetch and the JSON being fine: lines 91-97
FetchDataOk(stocks) ==
    /\ loading
    /\ marketData' = stocks
    /\ selectedStock' = IF Len(stocks) > 0 THEN stocks[1] ELSE selectedStock
    /\ loading' = FALSE
    /\ UNCHANGED <<error, searchTerm, timeRange, today, csv>>
    /\ RenderView(IF Len(stocks) > 0 THEN stocks[1] ELSE selectedStock, timeRange)

\* fetchData, the catch branch: lines 99-103
FetchDataError(message) ==
    /\ loading
    /\ error' = String(message)
    /\ loading' = FALSE
    /\ UNCHANGED <<marketData, selectedStock, searchTerm, timeRange, today, csv>>
    /\ RenderView(selectedStock, timeRange)

\* onClick={() => setSelectedStock(stock)} on a row of filteredStocks, line 325
SetSelectedStock(stock) ==
    /\ Rendered
    /\ \E i \in 1..Len(filteredStocks) : filteredStocks[i] = stock
    /\ stock # selectedStock
    /\ selectedStock' = stock
    /\ UNCHANGED <<marketData, loading, error, searchTerm, timeRange, today, csv>>
    /\ RenderView(stock, timeRange)

\* onChange={(e) => setSearchTerm(e.target.value)}, line 315
SetSearchTerm(term) ==
    /\ Rendered
    /\ term # searchTerm
    /\ searchTerm' = term
    /\ UNCHANGED <<marketData, selectedStock, loading, error, timeRange, today, csv>>
    /\ RenderView(selectedStock, timeRange)

\* onClick={() => setTimeRange(range)}, line 373
SetTimeRange(range) ==
    /\ Rendered
    /\ range # timeRange
    /\ timeRange' = range
    /\ UNCHANGED <<marketData, selectedStock, loading, error, searchTerm, today, csv>>
    /\ RenderView(selectedStock, range)

OrZero(v) == IF Truthy(v) THEN v ELSE N(0)      \* v || 0

\* Mutant: the export takes the rows the chart shows.
ExportedHistory_Filtered(stock) == getFilteredHistory(stock, timeRange).items

\* selectedStock.history || [], line 140
ExportedHistory(stock) == IF "history" \in DOMAIN stock THEN stock.history ELSE <<>>

\* rows = (selectedStock.history || []).map(row => [...]), lines 140-147
CsvRows(stock) ==
    LET history == ExportedHistory(stock)
    IN  [i \in 1..Len(history) |->
            << history[i].date, stock.symbol, Field(history[i], "close"),
               OrZero(Field(history[i], "change")),
               OrZero(Field(history[i], "changePercent")),
               OrZero(Field(history[i], "volume")) >>] \o <<>>

\* downloadCSV, lines 137-155: the click on Download CSV
downloadCSV ==
    /\ Rendered
    /\ Truthy(selectedStock)
    /\ csv' = [t |-> "file",
               download |-> selectedStock.symbol \o <<"_GSE_Data.csv">>,
               headers |-> <<"Date", "Symbol", "Price (GHS)", "Change", "Change %", "Volume">>,
               rows |-> CsvRows(selectedStock)]
    /\ UNCHANGED <<marketData, selectedStock, loading, error, searchTerm, timeRange,
                   today, currentYear, metrics, filteredHistory, seen>>

\* onClick={() => window.location.reload()}, line 273: the error screen's Check Again
CheckAgain ==
    /\ ~loading
    /\ Truthy(error) \/ Len(marketData) = 0
    /\ marketData' = <<>>
    /\ selectedStock' = Null
    /\ loading' = TRUE
    /\ error' = Null
    /\ searchTerm' = <<>>
    /\ timeRange' = "1Y"
    /\ UNCHANGED <<today, csv>>
    /\ RenderView(Null, "1Y")

\* The calendar year changes; nothing re-renders by itself.
NewYear ==
    /\ today < MaxYear
    /\ today' = today + 1
    /\ UNCHANGED <<marketData, selectedStock, loading, error, searchTerm, timeRange,
                   currentYear, metrics, filteredHistory, csv, seen>>

Next ==
    \/ \E stocks \in StockLists : FetchDataOk(stocks)
    \/ \E message \in ErrorMessages : FetchDataError(message)
    \/ \E stock \in AppStocks : SetSelectedStock(stock)
    \/ \E term \in SearchTerms : SetSearchTerm(term)
    \/ \E range \in Tokens : SetTimeRange(range)
    \/ downloadCSV
    \/ CheckAgain
    \/ NewYear

Spec == Init /\ [][Next]_vars

----------------------------------------------------------------------------
(* Properties of the component, checked under Spec *)

\* The rows a CSV export of `history` under `symbol` holds: one per sample, in order.
IsExportOf(rows, history, symbol) ==
    /\ Len(rows) = Len(history)
    /\ \A i \in 1..Len(rows) :
          /\ rows[i][1] = history[i].date
          /\ rows[i][2] = symbol
          /\ rows[i][3] = Field(history[i], "close")
          /\ rows[i][4] = (IF "change" \in DOMAIN history[i] THEN history[i].change ELSE N(0))
          /\ rows[i][5] = (IF "changePercent" \in DOMAIN history[i]
                           THEN history[i].changePercent ELSE N(0))
          /\ rows[i][6] = (IF "volume" \in DOMAIN history[i] THEN history[i].volume ELSE N(0))

\* C8 as claimed: the rows a CSV export writes are the samples getFilteredHistory
\* returns for the chosen window, the sequence the chart displays.
C8_ExportIsSelectedRange ==
    [][csv' # csv =>
          IsExportOf(csv'.rows, filteredHistory.items, selectedStock.symbol)]_vars

\* C8 as amended: the rows a CSV export writes are the samples of the selected
\* stock's whole history, in original order, whatever window is chosen.
C8_ExportIsFullHistory ==
    [][csv' # csv =>
          IsExportOf(csv'.rows, selectedStock.history, selectedStock.symbol)]_vars

\* C8 witness: a file just exported with more rows than the chart shows.
C8_Witness ==
    /\ Rendered
    /\ csv # NotDownloaded
    /\ csv.rows = CsvRows(selectedStock)
    /\ Len(csv.rows) > Len(filteredHistory.items)

\* C10: two invocations with the same history, the same token and the same calendar
\* year return the same results, whatever happened between them.
C10_Deterministic ==
    (/\ seen # NotSeen
     /\ Rendered
     /\ seen.stock.history = selectedStock.history
     /\ seen.year = currentYear) =>
        /\ seen.metrics = metrics
        /\ seen.range = timeRange => seen.filteredHistory = filteredHistory

\* C10 witness: a second invocation on the same inputs, for another stock, after the
\* window, the search term and the selection have all changed in between.
C10_Witness ==
    /\ seen # NotSeen
    /\ Rendered
    /\ seen.stock # selectedStock
    /\ seen.stock.history = selectedStock.history
    /\ seen.year = currentYear
    /\ seen.range = timeRange
    /\ seen.range = "YTD"
    /\ searchTerm # <<>>
    /\ today = MaxYear

----------------------------------------------------------------------------
(* Further properties of the two functions, checked under SpecFn *)

\* C11: when the valid prices are all one constant c, ma20 is c (20 prices or more),
\* volatility is a present zero and sharpeRatio is null (21 prices or more), and the
\* period return of look-back n is a present zero when n is at most the number of
\* prices minus one, and null otherwise.
C11_ConstantSeries ==
    (/\ MetricsComputed
     /\ Len(ValidPrices) >= 2
     /\ \A i \in 1..Len(ValidPrices) : ValidPrices[i] = ValidPrices[1]) =>
        LET k == Len(ValidPrices)
            c == ValidPrices[1]
        IN  /\ k >= 20 => Field(metrics, "ma20") = c
            /\ k >= 21 =>
                  /\ ~IsNull(Field(metrics, "volatility"))
                  /\ IsZero(Field(metrics, "volatility"))
                  /\ Field(metrics, "sharpeRatio") = Null
            /\ \A lb \in Lookbacks :
                  Field(metrics, lb[1]) = IF lb[2] <= k - 1 THEN N(0) ELSE Null

\* C11 witness: 40 or more valid prices, all the same constant other than 1, with
\* the 1-month return present and the 3-month return null.
C11_Witness ==
    /\ MetricsComputed
    /\ Len(ValidPrices) >= 40
    /\ Len(ValidPrices) < 64
    /\ \A i \in 1..Len(ValidPrices) : ValidPrices[i] = ValidPrices[1]
    /\ ValidPrices[1].n > 1
    /\ Field(metrics, "ma20") = ValidPrices[1]
    /\ IsZero(Field(metrics, "volatility"))
    /\ Field(metrics, "return1M") = N(0)
    /\ Field(metrics, "return3M") = Null

\* The daily returns of the valid prices, (p[i+1] - p[i]) / p[i], and the trailing
\* min(30, count) of them.
ReturnsOfValidPrices ==
    LET p == ValidPrices
    IN  [i \in 1..(Len(p) - 1) |->
            RatMul(RatAdd(p[i + 1], RatNeg(p[i])), RatInv(p[i]))] \o <<>>

TrailingReturns ==
    LET r == ReturnsOfValidPrices
        m == Min(30, Len(r))
    IN  SubSeq(r, Len(r) - m + 1, Len(r))

\* The population mean and the population variance of a sequence of rationals.
PopulationMean(r) == RatMul(ReduceSum(r), Num(1, Len(r)))
PopulationVariance(r) ==
    LET mu == PopulationMean(r)
        dev == [i \in 1..Len(r) |-> RatAdd(r[i], RatNeg(mu))]
    IN  RatMul(ReduceSum([i \in 1..Len(r) |-> RatMul(dev[i], dev[i])] \o <<>>),
               Num(1, Len(r)))

\* C12: with 20 daily returns or more, over the trailing min(30, count) returns with
\* population mean mu and population variance var: volatility is the non-negative
\* root of var * 252 * 100^2, and when it is not zero sharpeRatio is
\* (mu * 252 - RISK_FREE_RATE) divided by the root of var * 252 (volatility / 100).
C12_VolatilityFormula ==
    (MetricsComputed /\ Len(ValidPrices) >= 21) =>
        LET r == TrailingReturns
            mu == PopulationMean(r)
            var == PopulationVariance(r)
            v == Field(metrics, "volatility")
            sh == Field(metrics, "sharpeRatio")
        IN  /\ v.t = "root"
            /\ Num(v.n, v.d) = RatMul(var, N(252 * 100 * 100))
            /\ ~IsZero(v) =>
                  /\ sh.t = "quot"
                  /\ Num(sh.n, sh.d) = RatAdd(RatMul(mu, N(252)), RatNeg(RISK_FREE_RATE))
                  /\ Num(sh.rn, sh.rd) = RatMul(var, N(252))

\* C12 witness: more than 30 daily returns whose trailing 30 have another mean than
\* all of them, a volatility that is not zero and a Sharpe ratio.
C12_Witness ==
    /\ MetricsComputed
    /\ Len(ReturnsOfValidPrices) > 30
    /\ PopulationMean(TrailingReturns) # PopulationMean(ReturnsOfValidPrices)
    /\ ~IsZero(Field(metrics, "volatility"))
    /\ Field(metrics, "sharpeRatio").t = "quot"

\* C14: the display of a stock's metrics shows N/A for a field if and only if the
\* field is null or absent in the result of getMetrics: a zero is shown as a number.
C14_NotAvailableIffNull ==
    (MetricsComputed /\ Truthy(selectedStock)) =>
        \A f \in MetricFields :
            StatisticsDisplay(metrics)[f] = NA <=> IsNull(Field(metrics, f))

----------------------------------------------------------------------------
(* Further properties of the component, checked under Spec *)

C15_ComputedOnlyWhenLoaded ==
    [][/\ (metrics' # NotRendered \/ filteredHistory' # NotRendered) =>
             /\ ~loading'
             /\ error' = Null
             /\ Len(marketData') > 0
             /\ \E i \in 1..Len(marketData') : marketData'[i] = selectedStock'
       /\ (loading /\ ~loading' /\ Len(marketData') > 0) =>
             selectedStock' = marketData'[1]]_vars

\* C15 witness: after a search, a stock other than the first of the list is selected
\* and the two functions have been called on it.
C15_Witness ==
    /\ metrics # NotRendered
    /\ filteredHistory # NotRendered
    /\ searchTerm # <<>>
    /\ Len(marketData) > 1
    /\ selectedStock = marketData[2]

====
